---------------------------- MODULE Spec2Model ----------------------------
(***************************************************************************)
(* Model of src/script.js: the voxel terrain generated at load time and    *)
(* the first-person movement integrator driven by key events and frames.   *)
(*                                                                         *)
(* Numbers.  The script computes with IEEE doubles.  The model computes    *)
(* the same formulas exactly in fixed point:                               *)
(*   delta      in tenths of a second          (TimeUnit  per second)      *)
(*   velocity   in thousandths of a unit/s     (VelUnit   per unit/s)      *)
(*   direction  in thousandths                 (DirUnit   per 1.0)         *)
(*   position   in ten-thousandths of a unit   (PosUnit   per unit)        *)
(*   mesh position in halves of a unit         (MeshUnit  per unit)        *)
(* With these units every product below is an exact integer, except the    *)
(* normalised diagonal direction 1/sqrt(2), which is rounded to 0.707.     *)
(* An invalid number (NaN) is carried as the flag nan of the vector that   *)
(* holds it.                                                               *)
(***************************************************************************)
EXTENDS Integers, Sequences, FiniteSets

TimeUnit == 10
VelUnit  == 1000
DirUnit  == VelUnit
PosUnit  == VelUnit * TimeUnit
MeshUnit == 2

\* Program constants.
CHUNK_SIZE   == 16      \* const CHUNK_SIZE = 16
WORLD_HEIGHT == 8       \* for (let y = 0; y < 8; y++)
GROUND_Y     == 2       \* if (camera.position.y < 2)
JUMP_SPEED   == 8       \* velocity.y += 8
GRAVITY_X10  == 98      \* 9.8, in tenths
DAMPING      == 10      \* velocity.x * 10 * delta
ACCEL        == 20      \* direction.z * 20 * delta
ATLAS_CELLS  == 16      \* atlasBlockSize = 1 / 16
UV_COUNT     == 24      \* geometry.attributes.uv.count of a BoxGeometry

\* Bounds of the model.
MaxTicks == 2           \* frames animated in one behaviour
MaxProbeId == 5         \* block ids 0 .. MaxProbeId are passed in direct calls
MaxProbeCoord == 2      \* block coordinates 0 .. MaxProbeCoord in direct calls

\* clock.getDelta(): the frame times tried, in tenths of a second
\* (0 s, 0.1 s, 1 s).
Deltas == {0, 1, 10}

\* The frame times tried where every frame takes at least 0.1 s
\* (0.1 s, 0.5 s, 1 s).
LiveDeltas == {1, 5, 10}

\* e.code of the key events delivered.
Codes == {"KeyW", "KeyS", "KeyA", "KeyD", "Space"}

VARIABLES
    position,       \* camera.position            [x, y, z, nan]
    velocity,       \* velocity                   [x, y, z, nan]
    direction,      \* direction (persistent)     [x, y, z, nan]
    moveForward, moveBackward, moveLeft, moveRight,
    canJump,
    scene,          \* meshes added to the scene, in order of scene.add
    gen,            \* cursor of the generation loops [x, z]
    last,           \* history: the step taken last [op, delta, clamped]:
                    \* op is "load", "animate" (with its frame time and
                    \* whether it took the ground clamp), "space" (a Space
                    \* keydown) or "key" (any other key event)
    ticks,          \* frames animated so far
    impulses,       \* history: jump impulses added since the last ground clamp
    probe           \* the last direct call of getUVForBlock or createBlockMesh
                    \* and what it gave [fn, id, x, y, z, threw, uv, mesh]

vars == <<position, velocity, direction, moveForward, moveBackward, moveLeft,
          moveRight, canJump, scene, gen, last, ticks, impulses, probe>>

moveVars == <<position, velocity, direction, moveForward, moveBackward,
              moveLeft, moveRight, canJump, last, ticks, impulses>>

worldVars == <<scene, gen, probe>>

---------------------------------------------------------------------------
\* THREE.Vector3
Vec(x, y, z) == [x |-> x, y |-> y, z |-> z, nan |-> FALSE]

\* Number(b) of a boolean
Num(b) == IF b THEN 1 ELSE 0

\* a / b rounded to the nearest integer, symmetric in the sign of a (b > 0)
DivRound(a, b) == IF a < 0 THEN -((2 * (-a) + b) \div (2 * b))
                           ELSE (2 * a + b) \div (2 * b)

RECURSIVE Newton(_, _)
Newton(n, r) == LET s == (r + n \div r) \div 2
                IN  IF s >= r THEN r ELSE Newton(n, s)

\* Math.sqrt, rounded down
ISqrt(n) == IF n = 0 THEN 0 ELSE Newton(n, n)

---------------------------------------------------------------------------
\* The frame callback, animate(), line by line.

\* velocity.y -= 9.8 * delta
ApplyGravity(v, dt) ==
    [v EXCEPT !.y = v.y - (GRAVITY_X10 * VelUnit * dt) \div (10 * TimeUnit)]

\* c -= c * 10 * delta, for c = velocity.x and c = velocity.z
Damp(c, dt) == c - (c * DAMPING * dt) \div TimeUnit

ApplyDamping(v, dt) == [v EXCEPT !.x = Damp(v.x, dt), !.z = Damp(v.z, dt)]

\* Mutant: the direction is added to (+=) instead of assigned.
SetDirectionAccumulates(d, f, b, l, r) ==
    [d EXCEPT !.z = d.z + (Num(f) - Num(b)) * DirUnit,
              !.x = d.x + (Num(r) - Num(l)) * DirUnit]

\* Mutant: a held forward (right) key wins over the opposite key.
SetDirectionFirstKeyWins(d, f, b, l, r) ==
    [d EXCEPT !.z = (IF f THEN 1 ELSE IF b THEN -1 ELSE 0) * DirUnit,
              !.x = (IF r THEN 1 ELSE IF l THEN -1 ELSE 0) * DirUnit]

\* direction.z = Number(moveForward) - Number(moveBackward);
\* direction.x = Number(moveRight) - Number(moveLeft);
\* direction.y and whatever else the vector held are kept.
SetDirection(d, f, b, l, r) ==
    [d EXCEPT !.z = (Num(f) - Num(b)) * DirUnit,
              !.x = (Num(r) - Num(l)) * DirUnit]

\* Vector3.length()
Length(d) == ISqrt(d.x * d.x + d.y * d.y + d.z * d.z)

\* Mutant: divideScalar(length()), so the zero vector is divided by zero.
NormalizeNoGuard(d) ==
    LET len == Length(d)
    IN  IF len = 0
        THEN [d EXCEPT !.nan = TRUE]
        ELSE [d EXCEPT !.x = DivRound(d.x * DirUnit, len),
                       !.y = DivRound(d.y * DirUnit, len),
                       !.z = DivRound(d.z * DirUnit, len)]

\* direction.normalize(): divideScalar(length() || 1)
Normalize(d) ==
    LET len == Length(d)
        div == IF len = 0 THEN DirUnit ELSE len
    IN  [d EXCEPT !.x = DivRound(d.x * DirUnit, div),
                  !.y = DivRound(d.y * DirUnit, div),
                  !.z = DivRound(d.z * DirUnit, div)]

\* Mutant: c += direction.c * 20 * delta
ImpulseAdds(c, dc, dt) == c + (dc * ACCEL * dt) \div TimeUnit

\* c -= direction.c * 20 * delta
\* (DirUnit = VelUnit)
Impulse(c, dc, dt) == c - (dc * ACCEL * dt) \div TimeUnit

\* if (moveForward || moveBackward) velocity.z -= direction.z * 20 * delta;
\* if (moveLeft || moveRight) velocity.x -= direction.x * 20 * delta;
Accelerate(v, d, f, b, l, r, dt) ==
    [v EXCEPT !.z = IF f \/ b THEN Impulse(v.z, d.z, dt) ELSE v.z,
              !.x = IF l \/ r THEN Impulse(v.x, d.x, dt) ELSE v.x,
              !.nan = v.nan \/ (d.nan /\ (f \/ b \/ l \/ r))]

\* camera.position.c += velocity.c * delta
\* (PosUnit = VelUnit * TimeUnit)
Advance(c, vc, dt) == c + vc * dt

Integrate(p, v, dt) ==
    [p EXCEPT !.x = Advance(p.x, v.x, dt),
              !.y = Advance(p.y, v.y, dt),
              !.z = Advance(p.z, v.z, dt),
              !.nan = p.nan \/ v.nan]

\* Mutant: the clamp forgets camera.position.y = 2.
GroundClampKeepsY(p, v, cj) ==
    IF p.y < GROUND_Y * PosUnit
    THEN [position |-> p, velocity |-> [v EXCEPT !.y = 0],
          canJump |-> TRUE, clamped |-> TRUE]
    ELSE [position |-> p, velocity |-> v, canJump |-> cj, clamped |-> FALSE]

\* Mutant: the clamp forgets velocity.y = 0.
GroundClampKeepsSpeed(p, v, cj) ==
    IF p.y < GROUND_Y * PosUnit
    THEN [position |-> [p EXCEPT !.y = GROUND_Y * PosUnit], velocity |-> v,
          canJump |-> TRUE, clamped |-> TRUE]
    ELSE [position |-> p, velocity |-> v, canJump |-> cj, clamped |-> FALSE]

\* Mutant: the clamp forgets canJump = true.
GroundClampKeepsFlag(p, v, cj) ==
    IF p.y < GROUND_Y * PosUnit
    THEN [position |-> [p EXCEPT !.y = GROUND_Y * PosUnit],
          velocity |-> [v EXCEPT !.y = 0],
          canJump  |-> cj, clamped |-> TRUE]
    ELSE [position |-> p, velocity |-> v, canJump |-> cj, clamped |-> FALSE]

\* Mutant: the clamp has an else branch, canJump = false.
GroundClampElseAirborne(p, v, cj) ==
    IF p.y < GROUND_Y * PosUnit
    THEN [position |-> [p EXCEPT !.y = GROUND_Y * PosUnit],
          velocity |-> [v EXCEPT !.y = 0],
          canJump  |-> TRUE, clamped |-> TRUE]
    ELSE [position |-> p, velocity |-> v, canJump |-> FALSE, clamped |-> FALSE]

\* if (camera.position.y < 2) { velocity.y = 0; camera.position.y = 2;
\*                              canJump = true; }
GroundClamp(p, v, cj) ==
    IF p.y < GROUND_Y * PosUnit
    THEN [position |-> [p EXCEPT !.y = GROUND_Y * PosUnit],
          velocity |-> [v EXCEPT !.y = 0],
          canJump  |-> TRUE,
          clamped  |-> TRUE]
    ELSE [position |-> p, velocity |-> v, canJump |-> cj, clamped |-> FALSE]

\* The whole body of animate() on the state (p, v, d, cj) with the key flags
\* f, b, l, r and the frame time dt.
AnimateStep(p, v, d, cj, f, b, l, r, dt) ==
    LET v1 == ApplyDamping(ApplyGravity(v, dt), dt)
        d1 == Normalize(SetDirection(d, f, b, l, r))
        v2 == Accelerate(v1, d1, f, b, l, r, dt)
        p1 == Integrate(p, v2, dt)
        g  == GroundClamp(p1, v2, cj)
    IN  [position |-> g.position, velocity |-> g.velocity, direction |-> d1,
         canJump |-> g.canJump, clamped |-> g.clamped]

\* The body of animate() on the globals, with clock.getDelta() = dt.
AnimateBody(dt) ==
    /\ LET s == AnimateStep(position, velocity, direction, canJump,
                            moveForward, moveBackward, moveLeft, moveRight, dt)
       IN  /\ position'  = s.position
           /\ velocity'  = s.velocity
           /\ direction' = s.direction
           /\ canJump'   = s.canJump
           /\ impulses'  = IF s.clamped THEN 0 ELSE impulses
           /\ last' = [op |-> "animate", delta |-> dt,
                       clamped |-> s.clamped]
    /\ UNCHANGED <<moveForward, moveBackward, moveLeft, moveRight, worldVars>>

\* A frame, counted against the bound on frames.
Animate(dt) ==
    /\ ticks < MaxTicks
    /\ AnimateBody(dt)
    /\ ticks' = ticks + 1

\* A frame, not counted: requestAnimationFrame(animate) goes on for ever.
AnimateLive(dt) ==
    /\ AnimateBody(dt)
    /\ UNCHANGED ticks

---------------------------------------------------------------------------
\* The key handlers.

\* Mutant: canJump = false; if (canJump) velocity.y += 8;
JumpFlagFirst(v, cj) == [velocity |-> v, canJump |-> FALSE]

\* Mutant: velocity.y += 8 without the test of canJump.
JumpAlways(v, cj) ==
    [velocity |-> [v EXCEPT !.y = v.y + JUMP_SPEED * VelUnit],
     canJump  |-> FALSE]

\* Mutant: canJump = false is forgotten.
JumpKeepsFlag(v, cj) ==
    [velocity |-> IF cj THEN [v EXCEPT !.y = v.y + JUMP_SPEED * VelUnit] ELSE v,
     canJump  |-> cj]

\* case 'Space': if (canJump) velocity.y += 8; canJump = false;
Jump(v, cj) ==
    [velocity |-> IF cj THEN [v EXCEPT !.y = v.y + JUMP_SPEED * VelUnit] ELSE v,
     canJump  |-> FALSE]

\* document.addEventListener('keydown', ...)
KeyDown(code) ==
    /\ moveForward'  = IF code = "KeyW" THEN TRUE ELSE moveForward
    /\ moveBackward' = IF code = "KeyS" THEN TRUE ELSE moveBackward
    /\ moveLeft'     = IF code = "KeyA" THEN TRUE ELSE moveLeft
    /\ moveRight'    = IF code = "KeyD" THEN TRUE ELSE moveRight
    /\ IF code = "Space"
       THEN /\ velocity' = Jump(velocity, canJump).velocity
            /\ canJump'  = Jump(velocity, canJump).canJump
       ELSE UNCHANGED <<velocity, canJump>>
    /\ impulses' = IF velocity' # velocity THEN impulses + 1 ELSE impulses
    /\ last' = [op |-> IF code = "Space" THEN "space" ELSE "key", delta |-> 0,
                clamped |-> FALSE]
    /\ UNCHANGED <<position, direction, ticks, worldVars>>

\* document.addEventListener('keyup', ...): no case for Space
KeyUp(code) ==
    /\ moveForward'  = IF code = "KeyW" THEN FALSE ELSE moveForward
    /\ moveBackward' = IF code = "KeyS" THEN FALSE ELSE moveBackward
    /\ moveLeft'     = IF code = "KeyA" THEN FALSE ELSE moveLeft
    /\ moveRight'    = IF code = "KeyD" THEN FALSE ELSE moveRight
    /\ last' = [op |-> "key", delta |-> 0, clamped |-> FALSE]
    /\ UNCHANGED <<position, velocity, direction, canJump, ticks, impulses,
                   worldVars>>

---------------------------------------------------------------------------
\* The world, generated while the script loads.

\* const BLOCK_TYPES = { 0: null, 1: 'grass', 2: 'dirt', 3: 'stone' }
BLOCK_TYPES == [id \in 0 .. 3 |->
                  IF id = 0 THEN "null"
                  ELSE IF id = 1 THEN "grass"
                  ELSE IF id = 2 THEN "dirt" ELSE "stone"]

\* Mutant: x = id * atlasBlockSize, cells counted from 0.
GetUVForBlockZeroBased(id) ==
    LET x == id
    IN  << <<x, ATLAS_CELLS - 1>>, <<x + 1, ATLAS_CELLS - 1>>,
           <<x + 1, ATLAS_CELLS>>, <<x, ATLAS_CELLS>> >>

\* getUVForBlock(id), in atlas cells (atlasBlockSize = 1/16 is one cell):
\* x = (id - 1) * atlasBlockSize; the corners (x, 1 - s), (x + s, 1 - s),
\* (x + s, 1), (x, 1).
GetUVForBlock(id) ==
    LET x == id - 1
    IN  << <<x, ATLAS_CELLS - 1>>, <<x + 1, ATLAS_CELLS - 1>>,
           <<x + 1, ATLAS_CELLS>>, <<x, ATLAS_CELLS>> >>

\* for (i = 0; i < uv.count; i += 4) setXY(i + k, uv[k].x, uv[k].y), k = 0..3
FaceUVs(uv) == [i \in 0 .. (UV_COUNT - 1) |-> uv[(i % 4) + 1]]

\* Mutant: the lookup consults BLOCK_TYPES and throws for air and for an id
\* it does not hold.
UVLookupChecked(id) ==
    IF id \in DOMAIN BLOCK_TYPES /\ BLOCK_TYPES[id] # "null"
    THEN [threw |-> FALSE, uv |-> GetUVForBlock(id)]
    ELSE [threw |-> TRUE, uv |-> << >>]

\* A call of getUVForBlock(id) and how it ends: the function has no throw
\* and no test of id, and returns its four corners.
UVLookup(id) == [threw |-> FALSE, uv |-> GetUVForBlock(id)]

\* createBlockMesh: const uv = getUVForBlock(blockId); then the loop over the
\* faces writes the geometry's uv buffer (air returns before both).
GeometryUVs(blockId) ==
    IF blockId = 0 THEN << >> ELSE FaceUVs(UVLookup(blockId).uv)

\* Mutant: mesh.position.set(x, y, z), the block's corner.
CreateBlockMeshAtCorner(blockId, x, y, z) ==
    IF blockId = 0
    THEN << >>
    ELSE << [blockId |-> blockId,
             x |-> x * MeshUnit, y |-> y * MeshUnit, z |-> z * MeshUnit] >>

\* createBlockMesh(blockId, x, y, z): no mesh for air, else one mesh at the
\* centre of the block.  The result is the list of meshes made (none or one).
\* The uv buffer of the mesh's geometry is FaceUVs(GetUVForBlock(blockId)),
\* a function of blockId alone, and is not stored with each mesh.
CreateBlockMesh(blockId, x, y, z) ==
    IF blockId = 0
    THEN << >>
    ELSE << [blockId |-> blockId,
             x |-> x * MeshUnit + MeshUnit \div 2,
             y |-> y * MeshUnit + MeshUnit \div 2,
             z |-> z * MeshUnit + MeshUnit \div 2] >>

\* Mutant: else if (y <= 4) blockId = 2.
BlockIdAtOffByOne(y) ==
    IF y = 0 THEN 1 ELSE IF y <= 4 THEN 2 ELSE IF y < 8 THEN 3 ELSE 0

\* let blockId = 0; if (y === 0) blockId = 1; else if (y < 4) blockId = 2;
\* else if (y < 8) blockId = 3;
BlockIdAt(y) ==
    IF y = 0 THEN 1 ELSE IF y < 4 THEN 2 ELSE IF y < 8 THEN 3 ELSE 0

\* A direct call getUVForBlock(id).
CallGetUV(id) ==
    /\ probe' = [fn |-> "getUVForBlock", id |-> id, x |-> 0, y |-> 0, z |-> 0,
                 threw |-> UVLookup(id).threw, uv |-> UVLookup(id).uv,
                 mesh |-> << >>]
    /\ UNCHANGED <<moveVars, scene, gen>>

\* A direct call createBlockMesh(id, x, y, z): the mesh made (none for air)
\* and the uv buffer of its geometry.
CallCreateMesh(id, x, y, z) ==
    /\ probe' = [fn |-> "createBlockMesh", id |-> id, x |-> x, y |-> y, z |-> z,
                 threw |-> FALSE, uv |-> GeometryUVs(id),
                 mesh |-> CreateBlockMesh(id, x, y, z)]
    /\ UNCHANGED <<moveVars, scene, gen>>

\* The meshes the innermost loop, for (let y = 0; y < 8; y++), adds to the
\* scene for the column (x, z), from height y up: a mesh is made and added
\* only if (blockId > 0).
RECURSIVE ColumnFrom(_, _, _)
ColumnFrom(x, z, y) ==
    IF y < WORLD_HEIGHT
    THEN (IF BlockIdAt(y) > 0
          THEN CreateBlockMesh(BlockIdAt(y), x, y, z)
          ELSE << >>) \o ColumnFrom(x, z, y + 1)
    ELSE << >>

\* The cursor of the loops over x and z after one more column.
NextCursor(g) ==
    IF g.z + 1 < CHUNK_SIZE THEN [g EXCEPT !.z = g.z + 1]
    ELSE [x |-> g.x + 1, z |-> 0]

GenerationDone == gen.x >= CHUNK_SIZE

\* One pass of the body of the loop over z: the column (gen.x, gen.z).
GenerateStep ==
    /\ ~GenerationDone
    /\ scene' = scene \o ColumnFrom(gen.x, gen.z, 0)
    /\ gen' = NextCursor(gen)
    /\ UNCHANGED <<moveVars, probe>>

---------------------------------------------------------------------------
\* The state when the script has set up its globals.
InitMove ==
    /\ position  = Vec(8 * PosUnit, 10 * PosUnit, 8 * PosUnit)
    /\ velocity  = Vec(0, 0, 0)
    /\ direction = Vec(0, 0, 0)
    /\ moveForward = FALSE /\ moveBackward = FALSE
    /\ moveLeft = FALSE /\ moveRight = FALSE
    /\ canJump = FALSE
    /\ last = [op |-> "load", delta |-> 0, clamped |-> FALSE]
    /\ ticks = 0
    /\ impulses = 0

InitWorld ==
    /\ scene = << >>
    /\ gen = [x |-> 0, z |-> 0]
    /\ probe = [fn |-> "none", id |-> 0, x |-> 0, y |-> 0, z |-> 0,
                threw |-> FALSE, uv |-> << >>, mesh |-> << >>]

Init == InitMove /\ InitWorld

Next ==
    \/ \E dt \in Deltas : Animate(dt)
    \/ \E code \in Codes : KeyDown(code)
    \/ \E code \in Codes : KeyUp(code)

\* The handlers.  They never read or write the scene, which is built before
\* the first of them runs and is left out of this specification.
Spec == Init /\ [][Next]_vars

\* Frames that each take some time, for ever.
TickLive == \E dt \in LiveDeltas : AnimateLive(dt)

NextLive ==
    \/ TickLive
    \/ KeyDown("Space")
    \/ KeyUp("Space")

\* The vertical motion without a bound on the frames: requestAnimationFrame
\* runs animate() again and again, each frame taking at least 0.1 s, and
\* Space is pressed and released at any time.  The four direction keys are
\* left out: animate() reads their flags only for velocity.x and velocity.z,
\* which grow without bound and have no part in position.y, velocity.y or
\* canJump.
SpecLive == Init /\ [][NextLive]_vars /\ WF_vars(TickLive)

NextWorld == GenerateStep

NextCalls ==
    \/ \E id \in 0 .. MaxProbeId : CallGetUV(id)
    \/ \E id \in 0 .. MaxProbeId :
          \E x \in 0 .. MaxProbeCoord, y \in 0 .. MaxProbeCoord,
             z \in 0 .. MaxProbeCoord : CallCreateMesh(id, x, y, z)

\* The two block functions, called directly with any id and place.
SpecCalls == Init /\ [][NextCalls]_vars

\* The loading of the script: the generation loops.
SpecWorld == Init /\ [][NextWorld]_vars

---------------------------------------------------------------------------
\* Properties.

Ground == GROUND_Y * PosUnit

\* position.y + velocity.y * dt after gravity, from the state before a frame
IntegratedY(dt) ==
    position.y + (velocity.y - (GRAVITY_X10 * VelUnit * dt) \div (10 * TimeUnit)) * dt

\* The step is a frame / a Space keydown.
IsTick  == last'.op = "animate"
IsSpace == last'.op = "space"

NoIntent == ~moveForward /\ ~moveBackward /\ ~moveLeft /\ ~moveRight

\* C1. Grounding invariant: in every reachable state, after any interleaving
\* of frames and key events, position.y >= GROUND_Y.
GroundingInvariant == position.y >= Ground /\ ~position.nan

\* A frame has just pulled the viewer back up to the ground.
GroundingWitness ==
    last.op = "animate" /\ last.clamped /\ position.y = Ground

\* C2. Ground clamp post-condition: a frame whose integrated position.y is
\* strictly below GROUND_Y ends with position.y = GROUND_Y, velocity.y = 0
\* and jump available.
ClampPostCondition ==
    [][(IsTick /\ IntegratedY(last'.delta) < Ground)
         => (position'.y = Ground /\ velocity'.y = 0 /\ canJump')]_vars

\* The first landing: the fall from y = 10 ended by the clamp.
ClampWitness ==
    /\ last.op = "animate" /\ last.clamped /\ ticks = 1
    /\ velocity.y = 0 /\ canJump

\* C3, as stated. A frame whose integrated position.y is not below GROUND_Y
\* ends Airborne (jump not available), whatever the state before it.
AirborneOnNoClamp ==
    [][(IsTick /\ ~(IntegratedY(last'.delta) < Ground)) => ~canJump']_vars

\* C3, amended. A frame whose integrated position.y is not below GROUND_Y
\* leaves jump availability as it was before the frame.
NoClampKeepsCanJump ==
    [][(IsTick /\ ~(IntegratedY(last'.delta) < Ground))
         => (canJump' = canJump)]_vars

\* A frame of no duration ran while Grounded, and the state is still Grounded.
NoClampWitness ==
    last.op = "animate" /\ ~last.clamped /\ canJump

\* C4. Jump while Grounded: a Space keydown with jump available adds exactly
\* 8 to velocity.y, makes jump unavailable, and leaves position and the
\* horizontal velocity alone.
JumpWhileGrounded ==
    [][(IsSpace /\ canJump)
         => /\ velocity'.y = velocity.y + JUMP_SPEED * VelUnit
            /\ ~canJump'
            /\ position' = position
            /\ velocity'.x = velocity.x /\ velocity'.z = velocity.z]_vars

\* A jump has just been taken from the ground.
JumpWitness ==
    /\ last.op = "space"
    /\ impulses = 1 /\ position.y = Ground
    /\ velocity.y = JUMP_SPEED * VelUnit /\ ~canJump

\* C5. Jump while Airborne has no effect: a Space keydown with jump not
\* available leaves position, velocity, canJump and the four direction flags
\* unchanged.
JumpWhileAirborne ==
    [][(IsSpace /\ ~canJump)
         => UNCHANGED <<position, velocity, canJump, moveForward,
                        moveBackward, moveLeft, moveRight>>]_vars

\* Space was pressed during a fall in which no jump was taken.
AirborneSpaceWitness ==
    /\ last.op = "space"
    /\ impulses = 0 /\ position.y > Ground

\* C6. No double jump: at most one impulse is added between two ground
\* clamps, and jump becomes available again only by a frame that clamps.
NoDoubleJump ==
    [][/\ impulses' <= 1
       /\ (~canJump /\ canJump')
            => (IsTick /\ IntegratedY(last'.delta) < Ground)]_vars

\* Space was pressed again in the air after a jump, and added nothing.
SecondSpaceWitness ==
    /\ last.op = "space"
    /\ impulses = 1 /\ position.y > Ground
    /\ velocity.y < JUMP_SPEED * VelUnit

\* C7. Zero-intent safety: a frame with none of the four flags set computes
\* the zero direction, changes velocity.x and velocity.z by damping only,
\* and puts no invalid number into direction, velocity or position.
ZeroIntentSafety ==
    [][(IsTick /\ NoIntent)
         => /\ direction'.x = 0 /\ direction'.y = 0 /\ direction'.z = 0
            /\ ~direction'.nan /\ ~velocity'.nan /\ ~position'.nan
            /\ velocity'.x = velocity.x
                               - (velocity.x * DAMPING * last'.delta) \div TimeUnit
            /\ velocity'.z = velocity.z
                               - (velocity.z * DAMPING * last'.delta) \div TimeUnit]_vars

\* A frame with no flag set has run on a viewer that was moving sideways.
ZeroIntentWitness ==
    last.op = "animate" /\ NoIntent /\ velocity.x # 0 /\ direction.x = 0

\* Some of the directions the global vector can hold when a frame starts.
StaleDirections ==
    { [direction EXCEPT !.x = dx, !.z = dz] :
        dx \in {0, DirUnit}, dz \in {0, -DirUnit} }

\* C8. Step purity: the position, velocity and canJump a frame ends with are
\* a function of the position, velocity, canJump, flags and dt it starts
\* with; what the global direction vector held before the frame has no part.
StepPurity ==
    [][IsTick =>
         \A d \in StaleDirections :
            LET s == AnimateStep(position, velocity, d, canJump, moveForward,
                                 moveBackward, moveLeft, moveRight, last'.delta)
            IN  /\ position' = s.position
                /\ velocity' = s.velocity
                /\ canJump'  = s.canJump
                /\ direction' = s.direction]_vars

\* A frame ran with no flag set while the direction vector still held the
\* forward or backward direction of the frame before.
StepPurityWitness ==
    /\ last.op = "animate" /\ ticks = 2 /\ NoIntent
    /\ velocity.z # 0 /\ direction.z = 0

\* The block type the layering gives to height y.
Layer(y) == IF y = 0 THEN 1 ELSE IF y \in 1 .. 3 THEN 2 ELSE 3

Meshes == { scene[i] : i \in 1 .. Len(scene) }

Centres ==
    { <<x * MeshUnit + 1, y * MeshUnit + 1, z * MeshUnit + 1>> :
        x \in 0 .. 15, y \in 0 .. 7, z \in 0 .. 15 }

MeshPositions == { <<m.x, m.y, m.z>> : m \in Meshes }

\* C10. Mesh/world correspondence: every cube in the scene is at the centre
\* (x + 0.5, y + 0.5, z + 0.5) of a non-Air voxel, no two cubes are at the
\* same place, and when generation has ended every non-Air voxel has its
\* cube, 16 * 16 * 8 = 2048 in all.
MeshWorldCorrespondence ==
    /\ MeshPositions \subseteq Centres
    /\ Cardinality(MeshPositions) = Len(scene)
    /\ GenerationDone =>
          /\ MeshPositions = Centres
          /\ Len(scene) = 16 * 16 * 8

\* Generation has ended with the last cube placed in the far corner.
MeshWitness ==
    /\ GenerationDone
    /\ Len(scene) > 0
    /\ scene[Len(scene)].x = 15 * MeshUnit + 1
    /\ scene[Len(scene)].z = 15 * MeshUnit + 1

\* The ids the registry BLOCK_TYPES gives a block to: 1 grass, 2 dirt, 3 stone.
Registered(id) == id \in 1 .. 3

\* C11, as stated. A lookup of the uv quad for Air (0) or for an id the
\* registry does not hold fails instead of returning four coordinates.
UVLookupFailsFast ==
    (probe.fn = "getUVForBlock" /\ ~Registered(probe.id)) => probe.threw

\* C11, amended. The lookup never fails: for every id, Air and unregistered
\* ids included, it returns the four corners of the cell (id - 1) of the top
\* row, which for Air is the cell left of the atlas.
UVLookupTotal ==
    probe.fn = "getUVForBlock" =>
      /\ ~probe.threw
      /\ probe.uv = << <<probe.id - 1, 15>>, <<probe.id, 15>>,
                       <<probe.id, 16>>, <<probe.id - 1, 16>> >>

\* The quad for Air was asked for, and came back with u from -1/16 to 0.
UVLookupAirWitness ==
    /\ probe.fn = "getUVForBlock" /\ probe.id = 0
    /\ Len(probe.uv) = 4 /\ probe.uv[1] = <<-1, 15>>

\* C15. Atlas uv layout: for a registered id i the mesh's uv buffer holds, for
\* each of the 6 faces, the corners (x0, v0), (x1, v0), (x1, 1), (x0, 1) in
\* that order, x0 = (i - 1)/16, x1 = i/16, v0 = 1 - 1/16; the horizontal span
\* of i is disjoint from that of every other registered id.
AtlasUVLayout ==
    (probe.fn = "createBlockMesh" /\ Registered(probe.id)) =>
      LET i == probe.id
      IN  /\ DOMAIN probe.uv = 0 .. 23
          /\ \A face \in 0 .. 5 :
                /\ probe.uv[4 * face]     = <<i - 1, 16 - 1>>
                /\ probe.uv[4 * face + 1] = <<i, 16 - 1>>
                /\ probe.uv[4 * face + 2] = <<i, 16>>
                /\ probe.uv[4 * face + 3] = <<i - 1, 16>>
          /\ \A j \in 1 .. 3 :
                j # i => \/ GetUVForBlock(j)[2][1] <= probe.uv[0][1]
                         \/ probe.uv[1][1] <= GetUVForBlock(j)[1][1]

\* A stone mesh was made; the last vertex of its last face has the corner
\* (2/16, 1).
AtlasUVWitness ==
    /\ probe.fn = "createBlockMesh" /\ probe.id = 3
    /\ Len(probe.mesh) = 1
    /\ probe.uv[23] = <<2, 16>>

Magnitude(n) == IF n < 0 THEN -n ELSE n

\* c - c * 10 * dt, the damping term alone
Damped(c, dt) == c - (c * 10 * dt) \div TimeUnit

\* 20 * dt, in velocity units
FullImpulse(dt) == (20 * dt * VelUnit) \div TimeUnit

\* C12, as stated. Damping decays toward zero: a frame with no direction
\* flag set leaves each horizontal velocity component no larger in
\* magnitude, and of the same sign or zero.
DampingDecays ==
    [][(IsTick /\ NoIntent)
         => /\ Magnitude(velocity'.x) <= Magnitude(velocity.x)
            /\ (velocity.x >= 0 => velocity'.x >= 0)
            /\ (velocity.x <= 0 => velocity'.x <= 0)
            /\ Magnitude(velocity'.z) <= Magnitude(velocity.z)
            /\ (velocity.z >= 0 => velocity'.z >= 0)
            /\ (velocity.z <= 0 => velocity'.z <= 0)]_vars

OnlyForward == moveForward /\ ~moveBackward /\ ~moveLeft /\ ~moveRight

\* C13. Forward sign convention: a frame with only forward held ends with
\* velocity.z = (velocity.z - velocity.z * 10 * dt) - 20 * dt and gives
\* velocity.x no impulse.  From rest at (8, 10, 8) with dt = 1 the steps before
\* the clamp give velocity (0, -9.8, -20) and position (8, 0.2, -12), and the
\* frame ends with position.y = 2 and velocity.y = 0.
ForwardScenario ==
    [][(IsTick /\ OnlyForward)
         => /\ velocity'.z = Damped(velocity.z, last'.delta)
                               - FullImpulse(last'.delta)
            /\ velocity'.x = Damped(velocity.x, last'.delta)
            /\ (/\ position = Vec(8 * PosUnit, 10 * PosUnit, 8 * PosUnit)
                /\ velocity = Vec(0, 0, 0)
                /\ last'.delta = TimeUnit)
                 => LET d == Normalize(SetDirection(direction, TRUE, FALSE,
                                                    FALSE, FALSE))
                        v == Accelerate(
                               ApplyDamping(ApplyGravity(velocity, TimeUnit),
                                            TimeUnit),
                               d, TRUE, FALSE, FALSE, FALSE, TimeUnit)
                        p == Integrate(position, v, TimeUnit)
                    IN  /\ v = Vec(0, -(98 * VelUnit) \div 10, -20 * VelUnit)
                        /\ p = Vec(8 * PosUnit, (2 * PosUnit) \div 10,
                                   -12 * PosUnit)
                        /\ position' = Vec(8 * PosUnit, 2 * PosUnit,
                                           -12 * PosUnit)
                        /\ velocity' = Vec(0, 0, -20 * VelUnit)]_vars

\* The first frame lasted 1 s with only forward held, from rest at (8, 10, 8).
ForwardScenarioWitness ==
    /\ last.op = "animate" /\ last.delta = TimeUnit /\ ticks = 1
    /\ OnlyForward
    /\ position = Vec(8 * PosUnit, 2 * PosUnit, -12 * PosUnit)
    /\ velocity = Vec(0, 0, -20 * VelUnit)

\* C14. Opposing keys cancel: in a frame with forward and backward both held
\* direction.z is 0 and velocity.z changes by damping only; likewise left and
\* right for x; and the other axis, when exactly one of its keys is held,
\* gets the whole impulse of magnitude 20 * dt along a unit direction.
OpposingKeysCancel ==
    [][IsTick =>
         LET dt == last'.delta
         IN  /\ (moveForward /\ moveBackward)
                  => /\ direction'.z = 0
                     /\ velocity'.z = Damped(velocity.z, dt)
                     /\ (moveLeft # moveRight)
                          => /\ Magnitude(direction'.x) = DirUnit
                             /\ Magnitude(velocity'.x - Damped(velocity.x, dt))
                                  = FullImpulse(dt)
             /\ (moveLeft /\ moveRight)
                  => /\ direction'.x = 0
                     /\ velocity'.x = Damped(velocity.x, dt)
                     /\ (moveForward # moveBackward)
                          => /\ Magnitude(direction'.z) = DirUnit
                             /\ Magnitude(velocity'.z - Damped(velocity.z, dt))
                                  = FullImpulse(dt)
             /\ ~velocity'.nan /\ ~position'.nan]_vars

\* A frame of 0.1 s ran with forward, backward and right held: no motion along
\* z, the whole impulse along x.
OpposingKeysWitness ==
    /\ last.op = "animate" /\ last.delta = 1
    /\ moveForward /\ moveBackward /\ moveRight /\ ~moveLeft
    /\ direction.z = 0 /\ direction.x = DirUnit
    /\ velocity.z = 0 /\ velocity.x = -2 * VelUnit

\* C16. Jump availability implies resting on the ground: in every state
\* between steps, canJump implies position.y = GROUND_Y and velocity.y = 0.
JumpImpliesResting ==
    canJump => (position.y = Ground /\ velocity.y = 0)

\* The viewer has landed and a key was pressed since: jump is available.
JumpAvailableWitness ==
    canJump /\ last.op = "key" /\ moveForward

\* C17. Eventual landing: while frames that each take at least 0.1 s keep
\* coming, a viewer for whom jump is not available (falling from y = 10, or
\* just after a jump) is in the end clamped to the ground with jump available,
\* whatever Space events come between.
EventualLanding ==
    (~canJump) ~> (canJump /\ last.clamped /\ position.y = Ground)

\* A frame of 0.5 s has clamped the viewer to the ground, frames not being
\* bounded.
LandedAgainWitness ==
    /\ ticks = 0
    /\ last.op = "animate" /\ last.clamped /\ last.delta = 5
    /\ canJump /\ impulses = 0

=============================================================================
